---- MODULE Spec2Model ----
(***************************************************************************)
(* Model of dbt/adapters/duckdb/connections.py: the credential descriptor, *)
(* DuckDBConnectionManager.open with its bootstrap sequence, the cursor    *)
(* wrapper's execute and the manager's exception_handler scope.            *)
(*                                                                         *)
(* The engine (duckdb) and the host (dbt) are the environment: every       *)
(* engine call returns or raises one of the exception kinds below, chosen  *)
(* nondeterministically.                                                   *)
(***************************************************************************)
EXTENDS Integers, Sequences, FiniteSets, TLC

VARIABLES
    credentials,  \* the DuckDBCredentials of the connection
    connection,   \* the host's Connection: its state and handle
    pc,           \* the statement of open() about to run, "idle" outside open()
    i,            \* position of the extension loop
    connects,     \* engine connections created by duckdb.connect
    cursors,      \* engine cursors created by conn.cursor()
    opens,        \* open() calls made
    otherFailure, \* an exception that is not a RuntimeError has left open()
    lastRun,      \* how the last open() that was not skipped ended
    \* what the last operation of the host did; the next operation clears it
    issued,       \* open(): the statements the call gave to the engine, in
                  \* order (kept by a call that is skipped)
    entryState,   \* open(): connection.state as read on entry
    openRaised,   \* open(): the exception that left the try block
    openResult,   \* open(): how the call ended
    engineOut,    \* scope: what the engine did in the cursor execute
    scopeBody,    \* scope: what the code under exception_handler did
    scopeResult,  \* scope: what left exception_handler
    threads,      \* __init__: profile.threads
    initResult,   \* __init__: how the construction ended
    cursorResult, \* cursor(): the cursor wrapper returned
    engineCall,   \* execute(): the call made on the engine cursor
    executeResult \* execute(): how the call ended

vars == <<credentials, connection, pc, i, issued, connects, cursors, opens,
          otherFailure, lastRun, entryState, openRaised, openResult,
          engineOut, scopeBody, scopeResult,
          threads, initResult, cursorResult, engineCall, executeResult>>

scopeVars == <<engineOut, scopeBody, scopeResult>>
managerVars == <<threads, initResult>>
wrapperVars == <<cursorResult, engineCall, executeResult>>

(* ---------------------------- bounds ----------------------------------- *)
\* open() calls per behaviour
MaxOpens == 3
\* length of the extensions tuple of a descriptor
MaxExt == 2
\* worker threads a profile can ask for
MaxThreads == 3

(* ---------------------------- values ----------------------------------- *)
\* Python's None, where a string is expected
NONE == "<None>"
\* Python's None, where a tuple of strings is expected
NoneTuple == <<NONE>>
\* Python's None, where an object is expected
NoneObject == [kind |-> NONE]

ExtNames == {"json", "parquet"}
\* messages an engine or host exception can carry
Msgs == {"m1", "m2"}

\* f"...{value}..." : None is rendered as the text None
Fmt(v) == IF v = NONE THEN "None" ELSE v

(* ------------------------- exceptions ---------------------------------- *)
\* The exception classes the module names, and one class outside Exception.
\* dbt.exceptions.RuntimeException derives from the builtin RuntimeError
\* (the except chain of exception_handler names it before RuntimeError, and
\* open() relies on it to route its own configuration error through its
\* except clause); FailedToConnectException derives from RuntimeException.
Parent(cls) ==
    CASE cls = "FailedToConnectException" -> "RuntimeException"
      [] cls = "RuntimeException"         -> "RuntimeError"
      [] cls = "RuntimeError"             -> "Exception"
      [] cls = "Exception"                -> "BaseException"
      [] cls = "KeyboardInterrupt"        -> "BaseException"
      [] OTHER                            -> NONE

RECURSIVE IsSubclass(_, _)
IsSubclass(cls, base) ==
    IF cls = base THEN TRUE
    ELSE IF Parent(cls) = NONE THEN FALSE
    ELSE IsSubclass(Parent(cls), base)

\* no exception
NoExc == NoneObject

\* a freshly raised exception: __context__ is empty
NewExc(k, m) == [kind |-> k, msg |-> m, context |-> NoExc]

\* isinstance(e, cls), the test an except clause makes
IsInstance(e, cls) == e # NoExc /\ IsSubclass(e.kind, cls)

\* str(e): the message the exception was constructed with
Str(e) == e.msg

\* raise K(str(e)) inside the except block that caught e
Translate(e, k) == [kind |-> k, msg |-> Str(e), context |-> e]

\* number of translations an exception went through
RECURSIVE Depth(_)
Depth(e) == IF e = NoExc \/ e.context = NoExc THEN 0 ELSE 1 + Depth(e.context)

\* what the engine can raise: its runtime failure, another Exception, or
\* an interrupt delivered during the call
EngineKinds == {"RuntimeError", "Exception", "KeyboardInterrupt"}
\* what code running inside the exception_handler scope can raise
BodyKinds == EngineKinds \cup {"RuntimeException", "FailedToConnectException"}

OK == [kind |-> "ok"]
EngineOutcomes == {OK} \cup {NewExc(k, m) : k \in EngineKinds, m \in Msgs}

(* ------------------------ DuckDBCredentials ---------------------------- *)
RECURSIVE SeqsUpTo(_, _)
SeqsUpTo(S, n) ==
    IF n = 0 THEN {<<>>}
    ELSE LET R == SeqsUpTo(S, n - 1)
         IN R \cup {Append(s, x) : s \in {r \in R : Len(r) = n - 1}, x \in S}

DuckDBCredentials ==
    [extensions : {NoneTuple} \cup SeqsUpTo(ExtNames, MaxExt),
     s3_region : {NONE, "eu"},
     s3_access_key_id : {NONE, "key"},
     s3_secret_access_key : {NONE, "secret"},
     s3_session_token : {NONE, "token"}]

(* ---------------------- bootstrap statements --------------------------- *)
Load(name) == [op |-> "LOAD", name |-> name, value |-> ""]
Set(name, v) == [op |-> "SET", name |-> name, value |-> Fmt(v)]

IsS3Set(s) == s.op = "SET" /\ s.name \in {"s3_region", "s3_access_key_id",
                                           "s3_secret_access_key", "s3_session_token"}

Issued(s) == \E k \in 1..Len(issued) : issued[k] = s
IssuedSet(name) == \E k \in 1..Len(issued) : issued[k].op = "SET" /\ issued[k].name = name

(* ----------------------------- state ----------------------------------- *)
\* ConnectionState of the host's Connection object
ConnectionStates == {"init", "open", "closed", "fail"}

\* DuckDBConnectionWrapper(conn): the connection and the one cursor wrapper
\* built over cur, the cursor conn.cursor() returned
DuckDBConnectionWrapper(conn, cur) == [conn |-> conn, cursor |-> cur]

Returned == [status |-> "returned", exc |-> NoExc]
Skipped == [status |-> "skipped", exc |-> NoExc]
Raised(e) == [status |-> "raised", exc |-> e]
NoResult == [status |-> "none", exc |-> NoExc]
\* no call was made on the engine cursor
NoCall == NoneObject

Init ==
    /\ credentials \in DuckDBCredentials
    /\ connection = [state |-> "init", handle |-> NoneObject]
    /\ pc = "idle"
    /\ i = 1
    /\ issued = <<>>
    /\ connects = 0
    /\ cursors = 0
    /\ opens = 0
    /\ otherFailure = FALSE
    /\ lastRun = "none"
    /\ entryState = NONE
    /\ openRaised = NoExc
    /\ openResult = NoResult
    /\ scopeBody = NoResult
    /\ engineOut = NoResult
    /\ scopeResult = NoResult
    /\ threads = 0
    /\ initResult = NoResult
    /\ cursorResult = 0
    /\ engineCall = NoCall
    /\ executeResult = NoResult

(* ------------------ DuckDBConnectionManager.open ----------------------- *)
\* mutation: the early return is never taken
NeverAlreadyOpen == FALSE

\* if connection.state == ConnectionState.OPEN
AlreadyOpen == connection.state = "open"

\* mutation: the except clause of open() names the host's error only
OpenCatchesHostOnly(e) == IsInstance(e, "RuntimeException")

\* mutation: the except clause of open() names Exception
OpenCatchesAll(e) == IsInstance(e, "Exception")

\* except RuntimeError as e
OpenCatches(e) == IsInstance(e, "RuntimeError")

\* the error open() raises from its except block
OpenError(e) == Translate(e, "FailedToConnectException")

\* the extensions still to load: i is the loop position
MoreExtensions ==
    /\ credentials.extensions # NoneTuple
    /\ i <= Len(credentials.extensions)

\* mutation: the storage block runs whatever the region
AlwaysRegion == TRUE

\* if credentials.s3_region is not None
HasRegion == credentials.s3_region # NONE

\* mutation: the access key is tested before the session token
CredentialBranchKeyFirst ==
    IF credentials.s3_access_key_id # NONE THEN "set_key"
    ELSE IF credentials.s3_session_token # NONE THEN "set_token"
    ELSE "config_error"

\* mutation: the elif branch is missing
CredentialBranchTokenOnly ==
    IF credentials.s3_session_token # NONE THEN "set_token"
    ELSE "config_error"

\* the credential branch taken after SET s3_region
CredentialBranch ==
    IF credentials.s3_session_token # NONE THEN "set_token"
    ELSE IF credentials.s3_access_key_id # NONE THEN "set_key"
    ELSE "config_error"

\* mutation: the loop stops one extension early
AfterExtensionShort(k) ==
    IF credentials.extensions # NoneTuple /\ k < Len(credentials.extensions)
    THEN "load_extension"
    ELSE IF credentials.s3_region # NONE THEN "load_httpfs" ELSE "return"

\* where control goes once the extension loop is at position k
AfterExtension(k) ==
    IF credentials.extensions # NoneTuple /\ k <= Len(credentials.extensions)
    THEN "load_extension"
    ELSE IF HasRegion THEN "load_httpfs" ELSE "return"

\* mutation: the except block forgets to drop the handle
FailedConnectionKeepsHandle == [state |-> "fail", handle |-> connection.handle]

\* the connection as the except block of open() leaves it
FailedConnection == [state |-> "fail", handle |-> NoneObject]

\* an exception e leaves the try block of open()
OpenRaise(e) ==
    /\ openRaised' = e
    /\ pc' = "idle"
    /\ lastRun' = "raised"
    /\ otherFailure' = (otherFailure \/ ~IsInstance(e, "RuntimeError"))
    /\ IF OpenCatches(e)
       THEN /\ connection' = FailedConnection
            /\ openResult' = Raised(OpenError(e))
       ELSE /\ connection' = connection
            /\ openResult' = Raised(e)

\* h.execute(stmt): forwarded by __getattr__ to the engine connection
Execute(stmt, next) ==
    /\ issued' = Append(issued, stmt)
    /\ \E out \in EngineOutcomes :
         IF out = OK
         THEN /\ pc' = next
              /\ UNCHANGED <<connection, openRaised, openResult, otherFailure, lastRun>>
         ELSE OpenRaise(out)

OpenCall ==
    /\ pc = "idle"
    /\ opens < MaxOpens
    /\ opens' = opens + 1
    /\ entryState' = connection.state
    /\ openRaised' = NoExc
    /\ IF AlreadyOpen
       THEN /\ openResult' = Skipped
            /\ UNCHANGED <<pc, issued>>
       ELSE /\ openResult' = NoResult
            /\ issued' = <<>>
            /\ pc' = "connect"
    /\ UNCHANGED <<credentials, connection, i, connects, cursors, otherFailure, lastRun>>
    /\ engineOut' = NoResult
    /\ scopeBody' = NoResult
    /\ scopeResult' = NoResult
    /\ initResult' = NoResult
    /\ cursorResult' = 0
    /\ engineCall' = NoCall
    /\ executeResult' = NoResult
    /\ threads' = 0

\* conn = duckdb.connect(credentials.path, read_only=False)
Connect ==
    /\ pc = "connect"
    /\ \E out \in EngineOutcomes :
         IF out = OK
         THEN /\ connects' = connects + 1
              /\ pc' = "wrap"
              /\ UNCHANGED <<connection, openRaised, openResult, otherFailure, lastRun>>
         ELSE /\ connects' = connects
              /\ OpenRaise(out)
    /\ UNCHANGED <<credentials, i, issued, cursors, opens, entryState>>
    /\ UNCHANGED <<scopeVars, managerVars, wrapperVars>>

\* connection.handle = DuckDBConnectionWrapper(conn), which calls
\* conn.cursor(); connection.state = ConnectionState.OPEN
Wrap ==
    /\ pc = "wrap"
    /\ \E out \in EngineOutcomes :
         IF out = OK
         THEN /\ cursors' = cursors + 1
              /\ connection' = [state |-> "open",
                                handle |-> DuckDBConnectionWrapper(connects, cursors + 1)]
              /\ i' = 1
              /\ pc' = AfterExtension(1)
              /\ UNCHANGED <<openRaised, openResult, otherFailure, lastRun>>
         ELSE /\ i' = i
              /\ cursors' = cursors
              /\ OpenRaise(out)
    /\ UNCHANGED <<credentials, issued, connects, opens, entryState>>
    /\ UNCHANGED <<scopeVars, managerVars, wrapperVars>>

\* h.execute(f"LOAD '{extension}'")
LoadExtension ==
    /\ pc = "load_extension"
    /\ MoreExtensions
    /\ Execute(Load(credentials.extensions[i]), AfterExtension(i + 1))
    /\ i' = i + 1
    /\ UNCHANGED <<credentials, connects, cursors, opens, entryState>>
    /\ UNCHANGED <<scopeVars, managerVars, wrapperVars>>

\* h.execute("LOAD 'httpfs'")
LoadHttpfs ==
    /\ pc = "load_httpfs"
    /\ Execute(Load("httpfs"), "set_region")
    /\ UNCHANGED <<credentials, i, connects, cursors, opens, entryState>>
    /\ UNCHANGED <<scopeVars, managerVars, wrapperVars>>

\* h.execute(f"SET s3_region = '{credentials.s3_region}'")
SetRegion ==
    /\ pc = "set_region"
    /\ Execute(Set("s3_region", credentials.s3_region), CredentialBranch)
    /\ UNCHANGED <<credentials, i, connects, cursors, opens, entryState>>
    /\ UNCHANGED <<scopeVars, managerVars, wrapperVars>>

\* h.execute(f"SET s3_session_token = '{credentials.s3_session_token}'")
SetSessionToken ==
    /\ pc = "set_token"
    /\ Execute(Set("s3_session_token", credentials.s3_session_token), "return")
    /\ UNCHANGED <<credentials, i, connects, cursors, opens, entryState>>
    /\ UNCHANGED <<scopeVars, managerVars, wrapperVars>>

\* h.execute(f"SET s3_access_key_id = '{credentials.s3_access_key_id}'")
SetAccessKey ==
    /\ pc = "set_key"
    /\ Execute(Set("s3_access_key_id", credentials.s3_access_key_id), "set_secret")
    /\ UNCHANGED <<credentials, i, connects, cursors, opens, entryState>>
    /\ UNCHANGED <<scopeVars, managerVars, wrapperVars>>

\* h.execute(f"SET s3_secret_access_key = '{credentials.s3_secret_access_key}'")
SetSecretKey ==
    /\ pc = "set_secret"
    /\ Execute(Set("s3_secret_access_key", credentials.s3_secret_access_key), "return")
    /\ UNCHANGED <<credentials, i, connects, cursors, opens, entryState>>
    /\ UNCHANGED <<scopeVars, managerVars, wrapperVars>>

ConfigMsg == "You must specify either s3_session_token or s3_access_key_id and s3_secret_access_key"

\* raise dbt.exceptions.RuntimeException("You must specify either ...")
RaiseConfigError ==
    /\ pc = "config_error"
    /\ OpenRaise(NewExc("RuntimeException", ConfigMsg))
    /\ UNCHANGED <<credentials, i, issued, connects, cursors, opens, entryState>>
    /\ UNCHANGED <<scopeVars, managerVars, wrapperVars>>

\* return connection
Return ==
    /\ pc = "return"
    /\ pc' = "idle"
    /\ openResult' = Returned
    /\ lastRun' = "returned"
    /\ UNCHANGED <<credentials, connection, i, issued, connects, cursors, opens,
                   otherFailure, entryState, openRaised>>
    /\ UNCHANGED <<scopeVars, managerVars, wrapperVars>>

(* ------------------- DuckDBCursorWrapper.execute ----------------------- *)
\* mutation: the cursor wrapper translates nothing
CursorCatchesNothing(e) == FALSE

\* except RuntimeError as e
CursorCatches(e) == IsInstance(e, "RuntimeError")

\* what the engine cursor's execute can return
ResultValues == {"r1", "r2"}
Ok(v) == [kind |-> "ok", value |-> v]
\* what self._cursor.execute(...) can do
CursorOutcomes ==
    {Ok(v) : v \in ResultValues} \cup {NewExc(k, m) : k \in EngineKinds, m \in Msgs}

\* the result of a call that returned v
ReturnedValue(v) == [status |-> "returned", exc |-> NoExc, value |-> v]

\* what the engine did, as a result
EngineResult(out) == IF out.kind = "ok" THEN ReturnedValue(out.value) ELSE Raised(out)

\* the statements and bindings the host executes
Sqls == {"q1"}
Bindings == {NoneTuple, <<>>, <<"b">>}

\* mutation: the test is "if not bindings"
EngineCallTruthy(sql, bindings) ==
    IF bindings \in {NoneTuple, <<>>}
    THEN [sql |-> sql, parameterized |-> FALSE, params |-> NoneTuple]
    ELSE [sql |-> sql, parameterized |-> TRUE, params |-> bindings]

\* self._cursor.execute(sql) if bindings is None,
\* self._cursor.execute(sql, bindings) otherwise
EngineCall(sql, bindings) ==
    IF bindings = NoneTuple
    THEN [sql |-> sql, parameterized |-> FALSE, params |-> NoneTuple]
    ELSE [sql |-> sql, parameterized |-> TRUE, params |-> bindings]

\* out is what self._cursor.execute(...) did
CursorExecute(out) ==
    IF out.kind = "ok" THEN ReturnedValue(out.value)
    ELSE IF CursorCatches(out) THEN Raised(Translate(out, "RuntimeException"))
    ELSE Raised(out)

\* connection.handle.cursor().execute(sql, bindings), outside any scope
ExecuteCall ==
    /\ pc = "idle"
    /\ connection.handle # NoneObject
    /\ \E sql \in Sqls, bindings \in Bindings, out \in CursorOutcomes :
         /\ engineCall' = [args |-> [sql |-> sql, bindings |-> bindings],
                           call |-> EngineCall(sql, bindings)]
         /\ engineOut' = EngineResult(out)
         /\ executeResult' = CursorExecute(out)
    /\ entryState' = NONE
    /\ openRaised' = NoExc
    /\ openResult' = NoResult
    /\ scopeBody' = NoResult
    /\ scopeResult' = NoResult
    /\ threads' = 0
    /\ initResult' = NoResult
    /\ cursorResult' = 0
    /\ i' = 1
    /\ issued' = <<>>
    /\ UNCHANGED <<credentials, connection, pc, connects, cursors, opens,
                   otherFailure, lastRun>>

(* ------------- DuckDBConnectionManager.exception_handler --------------- *)
Suppressed(e) == [status |-> "suppressed", exc |-> NoExc, logged |-> Str(e)]

\* mutation: the except Exception clause comes first
HandlerClauseBroad(e) ==
    IF IsInstance(e, "Exception") THEN "wrap" ELSE "uncaught"

\* the except clause that handles e, in the order the clauses are written
HandlerClause(e) ==
    IF IsInstance(e, "RuntimeException") THEN "reraise"
    ELSE IF IsInstance(e, "RuntimeError") THEN "log"
    ELSE IF IsInstance(e, "Exception") THEN "wrap"
    ELSE "uncaught"

\* body is what the code under the with statement did
ExceptionHandler(body) ==
    IF body.status # "raised" THEN body
    ELSE CASE HandlerClause(body.exc) = "reraise" -> Raised(body.exc)
           [] HandlerClause(body.exc) = "log" -> Suppressed(body.exc)
           [] HandlerClause(body.exc) = "wrap" ->
                  Raised(Translate(body.exc, "RuntimeException"))
           [] OTHER -> Raised(body.exc)

\* with exception_handler(sql): cursor.execute(sql, bindings)
ExecuteInScope ==
    /\ pc = "idle"
    /\ connection.handle # NoneObject
    /\ \E out \in CursorOutcomes :
         /\ engineOut' = EngineResult(out)
         /\ scopeBody' = CursorExecute(out)
         /\ scopeResult' = ExceptionHandler(CursorExecute(out))
    /\ entryState' = NONE
    /\ openRaised' = NoExc
    /\ openResult' = NoResult
    /\ i' = 1
    /\ issued' = <<>>
    /\ UNCHANGED <<credentials, connection, pc, connects, cursors, opens,
                   otherFailure, lastRun>>
    /\ threads' = 0
    /\ initResult' = NoResult
    /\ cursorResult' = 0
    /\ engineCall' = NoCall
    /\ executeResult' = NoResult

\* with exception_handler(sql): host code that raises e itself
RaiseInScope ==
    /\ pc = "idle"
    /\ \E k \in BodyKinds, m \in Msgs :
         /\ engineOut' = NoResult
         /\ scopeBody' = Raised(NewExc(k, m))
         /\ scopeResult' = ExceptionHandler(Raised(NewExc(k, m)))
    /\ entryState' = NONE
    /\ openRaised' = NoExc
    /\ openResult' = NoResult
    /\ i' = 1
    /\ issued' = <<>>
    /\ UNCHANGED <<credentials, connection, pc, connects, cursors, opens,
                   otherFailure, lastRun>>
    /\ threads' = 0
    /\ initResult' = NoResult
    /\ cursorResult' = 0
    /\ engineCall' = NoCall
    /\ executeResult' = NoResult

(* ----------------- DuckDBConnectionWrapper.cursor ---------------------- *)
\* mutation: every call wraps a new engine cursor
CursorMethodFresh(h, n) == [returned |-> n + 1, cursors |-> n + 1]

\* return self._cursor, on the wrapper h when the engine has made n cursors
CursorMethod(h, n) == [returned |-> h.cursor, cursors |-> n]

\* connection.handle.cursor()
CursorCall ==
    /\ pc = "idle"
    /\ connection.handle # NoneObject
    /\ cursorResult' = CursorMethod(connection.handle, cursors).returned
    /\ cursors' = CursorMethod(connection.handle, cursors).cursors
    /\ entryState' = NONE
    /\ openRaised' = NoExc
    /\ openResult' = NoResult
    /\ engineOut' = NoResult
    /\ scopeBody' = NoResult
    /\ scopeResult' = NoResult
    /\ threads' = 0
    /\ initResult' = NoResult
    /\ engineCall' = NoCall
    /\ executeResult' = NoResult
    /\ i' = 1
    /\ issued' = <<>>
    /\ UNCHANGED <<credentials, connection, pc, connects, opens,
                   otherFailure, lastRun>>

(* ---------------- DuckDBConnectionManager.__init__ --------------------- *)
\* mutation: the test is off by one
ThreadsRejectedAboveTwo(t) == t > 2

\* if profile.threads > 1
ThreadsRejected(t) == t > 1

ThreadsMsg == "dbt-duckdb only supports 1 thread at this time"

\* DuckDBConnectionManager(profile), profile.threads = t
Construct ==
    /\ pc = "idle"
    /\ \E t \in 1..MaxThreads :
         /\ threads' = t
         /\ initResult' = IF ThreadsRejected(t)
                          THEN Raised(NewExc("RuntimeException", ThreadsMsg))
                          ELSE Returned
    /\ entryState' = NONE
    /\ openRaised' = NoExc
    /\ openResult' = NoResult
    /\ engineOut' = NoResult
    /\ scopeBody' = NoResult
    /\ scopeResult' = NoResult
    /\ cursorResult' = 0
    /\ engineCall' = NoCall
    /\ executeResult' = NoResult
    /\ i' = 1
    /\ issued' = <<>>
    /\ UNCHANGED <<credentials, connection, pc, connects, cursors, opens,
                   otherFailure, lastRun>>

(* --------------------------- behaviours -------------------------------- *)
\* the host only opens the connection
OpenNext ==
    \/ OpenCall
    \/ Connect
    \/ Wrap
    \/ LoadExtension
    \/ LoadHttpfs
    \/ SetRegion
    \/ SetSessionToken
    \/ SetAccessKey
    \/ SetSecretKey
    \/ RaiseConfigError
    \/ Return

OpenSpec == Init /\ [][OpenNext]_vars

\* the host constructs managers and opens the connection
ManagerNext == Construct \/ OpenNext

ManagerSpec == Init /\ [][ManagerNext]_vars

\* the host opens the connection and uses the wrappers of its handle
WrapperNext == CursorCall \/ ExecuteCall \/ OpenNext

WrapperSpec == Init /\ [][WrapperNext]_vars

\* the host opens the connection and runs code under exception_handler
Next ==
    \/ OpenCall
    \/ Connect
    \/ Wrap
    \/ LoadExtension
    \/ LoadHttpfs
    \/ SetRegion
    \/ SetSessionToken
    \/ SetAccessKey
    \/ SetSecretKey
    \/ RaiseConfigError
    \/ Return
    \/ ExecuteInScope
    \/ RaiseInScope

Spec == Init /\ [][Next]_vars

TypeOK ==
    /\ credentials \in DuckDBCredentials
    /\ connection.state \in ConnectionStates
    /\ pc \in {"idle", "connect", "wrap", "load_extension", "load_httpfs",
               "set_region", "set_token", "set_key", "set_secret",
               "config_error", "return"}
    /\ opens \in 0..MaxOpens
    /\ connects \in 0..MaxOpens
    /\ entryState \in ConnectionStates \cup {NONE}
    /\ openResult.status \in {"none", "returned", "skipped", "raised"}
    /\ scopeResult.status \in {"none", "returned", "suppressed", "raised"}

(* ---------------------------- properties ------------------------------- *)
RegionSet == credentials.s3_region # NONE
TokenSet == credentials.s3_session_token # NONE
KeySet == credentials.s3_access_key_id # NONE
SecretSet == credentials.s3_secret_access_key # NONE

\* the last open() ran past its early return and has ended
OpenEnded == pc = "idle" /\ openResult.status \in {"returned", "raised"}

ConfigError == NewExc("RuntimeException", ConfigMsg)

\* the engine raised nothing during the last open()
EngineAccepted == openRaised \in {NoExc, ConfigError}

HostKinds == {"RuntimeException", "FailedToConnectException"}

\* C1: with a storage region, no session token and no complete key/secret
\* pair, an open() in which the engine accepts every call ends with an
\* error, the connection state failed and the handle None.
C1_IncompleteCredentialsFail ==
    (OpenEnded /\ EngineAccepted /\ RegionSet /\ ~TokenSet /\ ~(KeySet /\ SecretSet))
        => /\ openResult.status = "raised"
           /\ connection.state = "fail"
           /\ connection.handle = NoneObject

\* C2 as claimed: a runtime failure of the engine during an execute through
\* the cursor wrapper inside the scope is suppressed.
C2_EngineFailureSuppressed ==
    (engineOut.status = "raised" /\ engineOut.exc.kind = "RuntimeError")
        => scopeResult.status = "suppressed"

\* C2 as amended: a runtime failure of the engine during an execute through
\* the cursor wrapper inside the scope leaves the scope as the host's
\* RuntimeException made by the wrapper, carrying the engine's message.
C2_EngineFailureSurfaces ==
    (engineOut.status = "raised" /\ engineOut.exc.kind = "RuntimeError")
        => /\ scopeResult.status = "raised"
           /\ scopeResult.exc.kind = "RuntimeException"
           /\ scopeResult.exc.msg = engineOut.exc.msg
           /\ scopeResult.exc.context = engineOut.exc
           /\ scopeResult = scopeBody

C2_Witness ==
    /\ engineOut.status = "raised"
    /\ engineOut.exc.kind = "RuntimeError"
    /\ scopeResult.status = "raised"

\* the three outcomes C3 names, for an exception e raised in the scope
PropagatesUnchanged(e) == scopeResult = Raised(e)
FullySuppressed == scopeResult.status = "suppressed" /\ scopeResult.exc = NoExc
Rewrapped(e) ==
    /\ scopeResult.status = "raised"
    /\ scopeResult.exc.kind = "RuntimeException"
    /\ scopeResult.exc.msg = e.msg
    /\ scopeResult.exc.context = e

\* C3 as claimed: an exception raised in the scope propagates unchanged
\* when it is the host's runtime error, is suppressed when it is another
\* RuntimeError, and is re-wrapped as RuntimeException in every other case.
C3_ThreeOutcomes ==
    scopeBody.status = "raised" =>
        LET e == scopeBody.exc
        IN CASE e.kind \in HostKinds -> PropagatesUnchanged(e)
             [] e.kind = "RuntimeError" -> FullySuppressed
             [] OTHER -> Rewrapped(e)

\* C3 as amended: the three outcomes hold for the exceptions that derive
\* from Exception; an exception outside Exception (KeyboardInterrupt)
\* leaves the scope unchanged.
C3_FourOutcomes ==
    scopeBody.status = "raised" =>
        LET e == scopeBody.exc
        IN CASE e.kind \in HostKinds -> PropagatesUnchanged(e)
             [] e.kind = "RuntimeError" -> FullySuppressed
             [] e.kind = "Exception" -> Rewrapped(e)
             [] OTHER -> PropagatesUnchanged(e)

C3_Witness ==
    /\ scopeBody.status = "raised"
    /\ scopeBody.exc.kind = "Exception"
    /\ scopeResult.status = "raised"
    /\ scopeResult.exc.kind = "RuntimeException"

\* C4: an open() on a connection whose state is open issues no statement,
\* creates no engine connection and leaves state and handle as they were.
C4_OpenIdempotent ==
    [][(pc = "idle" /\ connection.state = "open" /\ opens' = opens + 1)
         => /\ issued' = issued
            /\ connects' = connects
            /\ connection' = connection
            /\ pc' = "idle"
            /\ openResult' = Skipped]_vars

C4_Witness ==
    /\ openResult = Skipped
    /\ opens = MaxOpens
    /\ connects = 1
    /\ connection.state = "open"
    /\ connection.handle # NoneObject
    /\ Len(issued) > 0

\* C5: with a region and a session token, open() never issues an access-key
\* or secret SET and a completed bootstrap has issued the session-token SET;
\* with a region, no token and a complete pair, open() never issues a
\* session-token SET and a completed bootstrap has issued both pair SETs.
C5_CredentialPrecedence ==
    /\ (RegionSet /\ TokenSet) =>
          /\ ~IssuedSet("s3_access_key_id")
          /\ ~IssuedSet("s3_secret_access_key")
          /\ pc \notin {"set_key", "set_secret", "config_error"}
          /\ (pc = "idle" /\ openResult = Returned) =>
                 Issued(Set("s3_session_token", credentials.s3_session_token))
    /\ (RegionSet /\ ~TokenSet /\ KeySet /\ SecretSet) =>
          /\ ~IssuedSet("s3_session_token")
          /\ pc \notin {"set_token", "config_error"}
          /\ (pc = "idle" /\ openResult = Returned) =>
                 /\ Issued(Set("s3_access_key_id", credentials.s3_access_key_id))
                 /\ Issued(Set("s3_secret_access_key", credentials.s3_secret_access_key))

C5_Witness ==
    /\ RegionSet /\ TokenSet /\ KeySet /\ SecretSet
    /\ pc = "idle"
    /\ openResult = Returned
    /\ IssuedSet("s3_session_token")

\* C6: a RuntimeError raised by the engine at any step of open(), from
\* duckdb.connect to the last SET, ends open() with the state failed, the
\* handle None and a FailedToConnectException carrying the engine's message.
C6_RuntimeFailureFailsOpen ==
    (pc = "idle" /\ openRaised # NoExc /\ openRaised.kind = "RuntimeError")
        => /\ connection.state = "fail"
           /\ connection.handle = NoneObject
           /\ openResult.status = "raised"
           /\ openResult.exc.kind = "FailedToConnectException"
           /\ openResult.exc.msg = openRaised.msg

C6_Witness ==
    /\ pc = "idle"
    /\ openRaised # NoExc
    /\ openRaised.kind = "RuntimeError"
    /\ Len(issued) >= 3
    /\ issued[Len(issued)].op = "SET"
    /\ connection.state = "fail"

\* C7 as claimed: a connection that is open or failed when open() is called
\* is in that same state when the call has ended.
C7_OpenAndFailedTerminal ==
    (pc = "idle" /\ entryState \in {"open", "fail"}) => connection.state = entryState

\* C7 as amended: open is terminal under open() calls, failed is not: an
\* open() on a failed connection is not skipped, it connects and bootstraps
\* again and ends with the connection open or failed.
C7_OnlyOpenTerminal ==
    /\ entryState = "open" =>
          /\ connection.state = "open"
          /\ pc = "idle"
          /\ openResult = Skipped
    /\ (entryState = "fail" /\ pc = "idle") =>
          /\ openResult.status \in {"returned", "raised"}
          /\ connection.state \in {"open", "fail"}

C7_Witness ==
    /\ pc = "idle"
    /\ entryState = "fail"
    /\ connection.state = "open"
    /\ openResult = Returned

\* the first exception of the last scope: the engine's when the body was an
\* execute through the cursor wrapper, the body's own otherwise
ScopeOrigin == IF engineOut.status = "raised" THEN engineOut.exc ELSE scopeBody.exc

\* C8 as claimed: at open() and at the scope (with or without the cursor
\* wrapper under it) an error of the host's kind leaves unchanged, and
\* every other error leaves translated exactly once.
C8_TranslatedExactlyOnce ==
    /\ scopeBody.status = "raised" =>
          IF ScopeOrigin.kind \in HostKinds
          THEN scopeResult = Raised(ScopeOrigin)
          ELSE scopeResult.status = "raised" /\ Depth(scopeResult.exc) = 1
    /\ (pc = "idle" /\ openRaised # NoExc) =>
          IF openRaised.kind \in HostKinds
          THEN openResult = Raised(openRaised)
          ELSE openResult.status = "raised" /\ Depth(openResult.exc) = 1

\* C8 as amended: the cursor wrapper and the scope never re-wrap an error
\* of the host's kind and translate no error more than once: an engine
\* RuntimeError is translated by the wrapper and leaves the scope as that
\* translation, another Exception is translated by the scope, a RuntimeError
\* raised without the wrapper is suppressed and an exception outside
\* Exception leaves untranslated. open() translates every RuntimeError once
\* into FailedToConnectException, its own configuration error of the host's
\* kind included, and lets every other exception leave untranslated.
C8_TranslationPolicy ==
    /\ scopeBody.status = "raised" =>
          LET o == ScopeOrigin
          IN CASE o.kind \in HostKinds -> scopeResult = Raised(o)
               [] o.kind = "RuntimeError" /\ engineOut.status = "raised" ->
                      /\ scopeResult = scopeBody
                      /\ scopeResult.exc.kind = "RuntimeException"
                      /\ scopeResult.exc.context = o
                      /\ Depth(scopeResult.exc) = 1
               [] o.kind = "RuntimeError" /\ engineOut.status # "raised" ->
                      scopeResult.status = "suppressed"
               [] o.kind = "Exception" ->
                      /\ scopeResult.status = "raised"
                      /\ scopeResult.exc.kind = "RuntimeException"
                      /\ scopeResult.exc.context = o
                      /\ Depth(scopeResult.exc) = 1
               [] OTHER -> scopeResult = Raised(o)
    /\ (pc = "idle" /\ openRaised # NoExc) =>
          IF IsInstance(openRaised, "RuntimeError")
          THEN /\ openResult.status = "raised"
               /\ openResult.exc.kind = "FailedToConnectException"
               /\ openResult.exc.context = openRaised
               /\ Depth(openResult.exc) = 1
          ELSE openResult = Raised(openRaised)

C8_Witness ==
    /\ pc = "idle"
    /\ openRaised = ConfigError
    /\ openResult.status = "raised"
    /\ openResult.exc.kind = "FailedToConnectException"
    /\ openResult.exc.context = ConfigError
    /\ connection.state = "fail"

\* exactly one of {session token}, {access key with secret} is set
ExactlyOneCredential ==
    \/ TokenSet /\ ~(KeySet /\ SecretSet)
    \/ ~TokenSet /\ KeySet /\ SecretSet

\* C9 as claimed: with a region, bootstrap succeeds only with exactly one
\* of {session token}, {access key with secret} set and fails otherwise.
C9_ExactlyOneOrFail ==
    (OpenEnded /\ RegionSet) =>
        /\ openResult = Returned => ExactlyOneCredential
        /\ ~ExactlyOneCredential => openResult.status = "raised"

\* C9 as amended: with a region, open() raises its configuration error
\* exactly when neither a session token nor an access key is set (reached
\* when the engine accepted the statements before it), and with a token or
\* an access key set bootstrap succeeds whenever the engine accepts every
\* statement: both a token and a pair may be set, the secret is not tested.
C9_TokenOrKeyOrFail ==
    (OpenEnded /\ RegionSet) =>
        /\ openResult = Returned => (TokenSet \/ KeySet)
        /\ ((TokenSet \/ KeySet) /\ EngineAccepted) => openResult = Returned
        /\ ~(TokenSet \/ KeySet) => openResult.status = "raised"
        /\ (~(TokenSet \/ KeySet) /\ EngineAccepted) =>
               /\ openRaised = ConfigError
               /\ connection.state = "fail"
        /\ openRaised = ConfigError => ~(TokenSet \/ KeySet)

C9_Witness ==
    /\ OpenEnded
    /\ RegionSet /\ TokenSet /\ KeySet /\ SecretSet
    /\ openResult = Returned
    /\ connection.state = "open"
    /\ opens = 1

\* C10: with no storage region, whatever the other fields, open() issues
\* no SET s3_* statement: every statement issued is the LOAD of a
\* configured extension.
C10_NoRegionNoStorageStatement ==
    ~RegionSet =>
        /\ pc \notin {"load_httpfs", "set_region", "set_token", "set_key",
                      "set_secret", "config_error"}
        /\ \A k \in 1..Len(issued) :
              /\ ~IsS3Set(issued[k])
              /\ credentials.extensions # NoneTuple
              /\ \E j \in 1..Len(credentials.extensions) :
                    issued[k] = Load(credentials.extensions[j])

C10_Witness ==
    /\ ~RegionSet /\ TokenSet /\ KeySet /\ SecretSet
    /\ pc = "idle"
    /\ openResult = Returned
    /\ Len(issued) = 2

\* a step that constructs a manager
Constructing == threads' # 0 /\ (threads' # threads \/ initResult' # initResult)

\* C11: constructing a manager with profile.threads > 1 fails with the
\* host's RuntimeException, with threads = 1 it succeeds, and in both cases
\* no engine connection or cursor is created and the connection is untouched.
C11_ThreadsAboveOneRejected ==
    [][Constructing =>
          /\ connects' = connects
          /\ cursors' = cursors
          /\ connection' = connection
          /\ pc' = "idle"
          /\ threads' > 1 =>
                 /\ initResult'.status = "raised"
                 /\ initResult'.exc.kind = "RuntimeException"
                 /\ initResult'.exc.context = NoExc
          /\ threads' = 1 => initResult' = Returned]_vars

C11_Witness ==
    /\ threads = 2
    /\ initResult.status = "raised"
    /\ connects = 0
    /\ connection = [state |-> "init", handle |-> NoneObject]

\* C12: building a connection wrapper creates exactly one engine cursor, and
\* every cursor() call returns the wrapper of that cursor and creates none:
\* the cursor of the attached handle is always the last one the engine made.
C12_OneCursorPerWrapper ==
    [][/\ (connection'.handle # NoneObject /\ connection'.handle # connection.handle) =>
              /\ cursors' = cursors + 1
              /\ connection'.handle.cursor = cursors'
       /\ connection'.handle # NoneObject => connection'.handle.cursor = cursors'
       /\ cursorResult' # 0 =>
              /\ cursorResult' = connection'.handle.cursor
              /\ cursors' = cursors
              /\ connection' = connection]_vars

C12_Witness ==
    /\ cursorResult = 2
    /\ connects = 2
    /\ cursors = 2
    /\ connection.handle = [conn |-> 2, cursor |-> 2]

\* C13: execute re-raises a RuntimeError of the engine cursor as the host's
\* RuntimeException with the same message, returns what the engine cursor
\* returned, lets any other exception through as it is, and calls the
\* engine without parameters exactly when bindings is None.
C13_ExecuteTranslatesRuntimeErrors ==
    executeResult # NoResult =>
        /\ (engineOut.status = "raised" /\ IsInstance(engineOut.exc, "RuntimeError")) =>
               /\ executeResult.status = "raised"
               /\ executeResult.exc.kind = "RuntimeException"
               /\ executeResult.exc.msg = engineOut.exc.msg
        /\ (engineOut.status = "raised" /\ ~IsInstance(engineOut.exc, "RuntimeError")) =>
               executeResult = Raised(engineOut.exc)
        /\ engineOut.status = "returned" =>
               /\ executeResult.status = "returned"
               /\ executeResult.value = engineOut.value
        /\ engineCall.call.sql = engineCall.args.sql
        /\ engineCall.call.parameterized <=> (engineCall.args.bindings # NoneTuple)
        /\ engineCall.call.parameterized => engineCall.call.params = engineCall.args.bindings

C13_Witness ==
    /\ executeResult.status = "raised"
    /\ executeResult.exc.kind = "RuntimeException"
    /\ engineOut.exc.kind = "RuntimeError"
    /\ engineCall.args.bindings = <<>>
    /\ engineCall.call.parameterized

\* the number of configured extensions
NumExtensions ==
    IF credentials.extensions = NoneTuple THEN 0 ELSE Len(credentials.extensions)

\* the statements of a bootstrap that runs to its end
NumStatements ==
    NumExtensions + (IF ~RegionSet THEN 0 ELSE IF TokenSet THEN 3 ELSE 4)

\* the statements issued so far are in bootstrap order
InBootstrapOrder(stmts) ==
    LET n == NumExtensions
    IN /\ Len(stmts) <= NumStatements
       /\ \A k \in 1..Len(stmts) :
             CASE k <= n -> stmts[k] = Load(credentials.extensions[k])
               [] k = n + 1 -> stmts[k] = Load("httpfs")
               [] k = n + 2 -> stmts[k] = Set("s3_region", credentials.s3_region)
               [] k = n + 3 -> stmts[k].op = "SET" /\ stmts[k].name \in
                                   {"s3_session_token", "s3_access_key_id"}
               [] OTHER -> /\ stmts[k].op = "SET"
                           /\ stmts[k].name = "s3_secret_access_key"
                           /\ stmts[k - 1].name = "s3_access_key_id"

\* C14: in every run of open() the statements are issued in bootstrap
\* order: the LOADs of the extensions in list order, then LOAD 'httpfs',
\* SET s3_region and the credential SETs, the access key before the secret;
\* a run that returns has issued them all, and after a statement failed no
\* statement is issued until open() is called again.
C14_BootstrapOrder ==
    [][/\ InBootstrapOrder(issued')
       /\ (pc' = "idle" /\ openResult' = Returned) => Len(issued') = NumStatements
       /\ openRaised' # NoExc => pc' = "idle"
       /\ openRaised # NoExc =>
              \/ issued' = issued
              \/ opens' = opens + 1 /\ issued' = <<>>]_vars

C14_Witness ==
    /\ pc = "idle"
    /\ openResult = Returned
    /\ Len(issued) = 6
    /\ issued[1] # issued[2]
    /\ issued[6].name = "s3_secret_access_key"

\* C15: as long as every failure of open() was a runtime failure, whenever
\* no open() call is in progress the handle is present exactly when the
\* state is open, and the state is failed exactly when the last open() that
\* was not skipped raised.
C15_HandleIffOpen ==
    (pc = "idle" /\ ~otherFailure) =>
        /\ connection.handle # NoneObject <=> connection.state = "open"
        /\ connection.state = "fail" <=> lastRun = "raised"

C15_Witness ==
    /\ pc = "idle"
    /\ ~otherFailure
    /\ opens = 2
    /\ cursors = 2
    /\ Len(issued) > 0
    /\ lastRun = "raised"
    /\ connection = [state |-> "fail", handle |-> NoneObject]

\* a bootstrap statement is issued in this step
Issuing == Len(issued') > Len(issued)

\* C16: every bootstrap statement is issued with the state already open and
\* the handle attached; an open connection changes only when a runtime
\* failure resets it; a bootstrap statement that fails with an exception
\* that is not a runtime failure makes open() raise that exception unchanged
\* with the state open and the handle attached, and an open() call after
\* that is skipped: no connect and no statement.
C16_OpenBeforeBootstrap ==
    [][/\ Issuing =>
             /\ connection.state = "open"
             /\ connection.handle # NoneObject
       /\ (connection.state = "open" /\ connection' # connection) =>
             /\ IsInstance(openRaised', "RuntimeError")
             /\ connection' = [state |-> "fail", handle |-> NoneObject]
       /\ (Issuing /\ openRaised' # NoExc
                   /\ ~IsInstance(openRaised', "RuntimeError")) =>
             /\ openResult' = Raised(openRaised')
             /\ connection' = connection
             /\ connection'.state = "open"
             /\ connection'.handle # NoneObject
             /\ pc' = "idle"
       /\ (pc = "idle" /\ lastRun = "raised" /\ connection.state = "open"
                       /\ opens' = opens + 1) =>
             /\ openResult' = Skipped
             /\ pc' = "idle"
             /\ connects' = connects
             /\ issued' = issued
             /\ connection' = connection]_vars

C16_Witness ==
    /\ pc = "idle"
    /\ openResult = Skipped
    /\ lastRun = "raised"
    /\ otherFailure
    /\ connects = 1
    /\ Len(issued) > 0
    /\ connection.state = "open"
    /\ connection.handle # NoneObject

====
